---------------------------- MODULE Spec2Model ----------------------------
(***************************************************************************)
(* KarinJS/puppeteer-core: the page pool of one browser instance           *)
(* (PagePool), the capture protocol that uses it (Render.render and        *)
(* Render.newPage), the disconnected listener of the instance, the         *)
(* dispatcher's retry and rotation (Puppeteer.screenshot, Puppeteer.task)  *)
(* with its browserCrash listener and Puppeteer.launch, and the options    *)
(* and clips of one capture.                                               *)
(*                                                                         *)
(* Everything runs on one JavaScript thread.  A step of the model is the   *)
(* code that runs between two suspension points of one async call: from    *)
(* the call (or from the settling of the promise it awaits) to its next    *)
(* await on the driver.  Consecutive awaits on the driver that read and    *)
(* write nothing but the call's own locals (the driver calls of newPage    *)
(* after the page is obtained, the driver calls of the capture) are one    *)
(* step that chooses which of them, if any, raised.                        *)
(*                                                                         *)
(* A page handle and the pool key of its slot are one number: the pool     *)
(* keys are random strings, used only as keys, one per handle.  Handles    *)
(* are numbered in the order browser.newPage() delivers them, which is     *)
(* the insertion order of the Map and so its iteration order.              *)
(* PageInfo.lastUsed is written and never read; it is left out.            *)
(***************************************************************************)
EXTENDS Integers, Sequences, FiniteSets, TLC

\* PagePool.maxSize
maxSize == 10

\* Render calls issued on the instance.
MaxCalls == 2

\* Slots still free in the pool when the calls start.
MaxFree == 1

\* Concurrent Puppeteer.screenshot calls.
MaxShots == 2

\* Browser instances in the rotation.
MaxBrowsers == 2

\* browserCrash notifications handled by the dispatcher.
MaxCrashes == 1

\* Conditions a task gives for each optional wait of newPage.
MaxConds == 1

\* Requests for one url counted in the map of simulateWaitUntil.
MaxReqs == 1

\* The instance ids Puppeteer.index can hand out within the bounds.
Ids == 0..(MaxBrowsers + MaxCrashes - 1)

\* The render calls of Spec, and all of them: SpecLate issues one more.
Issued == 1..MaxCalls
Calls == 1..(MaxCalls + 1)

Shots == 1..MaxShots

\* The screenshot calls made while instances crash: one fewer.
CrashShots == 1..(MaxShots - 1)

\* The value of an unset local (undefined).
NoPage == 0

\* list.shift() on an empty rotation (undefined).
NoInstance == -1

\* A task without a quality, a screenshot call without one (undefined).
NoQuality == -1

VARIABLES
    pool,       \* PagePool.pool: handle -> [status]
    timers,     \* handles whose slot has a pending idle timeout (PageInfo.timer)
    evicting,   \* handles whose timer callback awaits page.close()
    nextPage,   \* the next handle browser.newPage() delivers
    list,       \* Render.list: the echoes in flight
    pc,         \* where each render call is
    data,       \* the task of each render call
    created,    \* acquirePage / createPage: the local `id` of the new slot
    npPage,     \* Render.newPage: the local `page`
    page,       \* Render.render: the local `page`
    outcome,    \* how each render call ended
    lastError,  \* the last error raised to a render call: its echo, the driver call
    released,   \* history: per render call, whether each releasePage it made found the slot
    rotation,   \* Puppeteer.list: the ids of the instances, front first
    options,    \* the task of each screenshot call
    shotPc,     \* where each screenshot call is
    dispatches, \* the calls of task each screenshot call has made
    first,      \* what the first dispatch of each screenshot call gave
    result,     \* what each screenshot call gave its caller, and the dispatch it is from
    target,     \* the instance the last dispatch of each screenshot call renders on
    index,      \* Puppeteer.index: the id of the next instance
    launching,  \* the ids of the instances whose Render.init() is awaited, oldest first
    renders,    \* the render calls each instance has received from task
    removed,    \* history: the ids the browserCrash listener took out of the rotation
    connected,  \* the browser of the instance is connected
    closePc,    \* where the disconnected listener of the instance is
    closeAllAt, \* PagePool.closeAll: the slot whose page.close() is awaited
    capData,    \* the capture looked at alone: its task (render's `data`)
    capBox,     \* the capture: what body.boundingBox() gave
    capPc,      \* the capture: where it is
    capCalls,   \* the capture: the screenshot calls made to the driver, in order
    capReturn,  \* the capture: what render gave its caller
    waitTask,   \* the waits of one newPage: how many conditions the task has, by kind
    waitPc,     \* the waits: where newPage is
    waited,     \* the waits: the conditions awaited and how each settled, in order
    config,     \* Puppeteer.config.browserCount as given to the constructor
    initI,      \* Puppeteer.init: the loop counter i
    initId,     \* Puppeteer.init: the id of the instance whose launch() it awaits
    initPc,     \* where Puppeteer.init is
    other,      \* a second Puppeteer of the process: its list, index and launches
    lastCrash,  \* history: the last instance that disconnected, its pool, the count
    simPc,      \* simulateWaitUntil, per page: where the call is
    simList,    \* simulateWaitUntil, per page: the local `list`, url -> count
    simTimer,   \* simulateWaitUntil, per page: the 10 s timeout is pending
    lastSignal  \* history: the page whose simulation emitted 'end' last, and the value

poolVars == <<pool, timers, evicting, nextPage>>
callVars == <<list, pc, data, created, npPage, page, outcome, lastError,
              released>>
shotVars == <<rotation, options, shotPc, dispatches, first, result, target>>
crashVars == <<index, launching, renders, removed>>
linkVars == <<connected, closePc, closeAllAt>>
bootVars == <<config, initI, initId, initPc>>
poolsVars == <<other, lastCrash>>
simVars == <<simPc, simList, simTimer, lastSignal>>
connVars == <<linkVars, bootVars, poolsVars, simVars>>
waitVars == <<waitTask, waitPc, waited>>
capVars == <<capData, capBox, capPc, capCalls, capReturn, waitVars>>
vars == <<poolVars, callVars, shotVars, crashVars, connVars, capVars>>

----------------------------------------------------------------------------
(* PagePool: the Map and its helpers *)

\* The slot createNewPage stores.
NewSlot == [status |-> "idle"]

\* The handles of the slots with status idle.
IdleIds(pl) == {i \in DOMAIN pl : pl[i].status = "idle"}

BusyIds(pl) == {i \in DOMAIN pl : pl[i].status = "busy"}

\* The first idle slot in the Map's iteration order.
FirstIdle(pl) == CHOOSE i \in IdleIds(pl) : \A j \in IdleIds(pl) : i <= j

\* pool.set(id, {page, status: 'idle'})
PoolSet(pl, i) == [j \in DOMAIN pl \cup {i} |-> IF j = i THEN NewSlot ELSE pl[j]]

\* pool.delete(id)
PoolDelete(pl, i) == [j \in DOMAIN pl \ {i} |-> pl[j]]

\* info.status = s
SetStatus(pl, i, s) == [pl EXCEPT ![i].status = s]

\* pool.size
PoolSize(pl) == Cardinality(DOMAIN pl)

\* Some call is between the return of createNewPage and the resumption of
\* its caller (the `await this.createNewPage()` of acquirePage and of
\* createPage).  Only promise continuations that are already queued run
\* there: a call made from one (Puppeteer.screenshot issues its second
\* dispatch from one), another browser.newPage() reply of the same read.
\* Timer callbacks are macrotasks and wait; so does every driver reply on a
\* page, which no step in the gap reads or is read by.
InMicrotaskGap == \E r \in Calls : pc[r] \in {"acquire_created", "create_created"}

----------------------------------------------------------------------------
(* PagePool.acquirePage, PagePool.createPage, PagePool.createNewPage *)

\* acquirePage or createPage hands handle p to Render.newPage.
Obtain(r, p) ==
    /\ npPage' = [npPage EXCEPT ![r] = p]
    /\ pc' = [pc EXCEPT ![r] = "newPage"]

\* acquirePage up to its first suspension: an idle slot is taken at once;
\* with none, a pool below maxSize starts createNewPage and a full pool
\* starts the 100 ms poll.
acquirePage(r) ==
    IF IdleIds(pool) # {}
    THEN /\ pool' = SetStatus(pool, FirstIdle(pool), "busy")
         /\ timers' = timers \ {FirstIdle(pool)}
         /\ Obtain(r, FirstIdle(pool))
    ELSE /\ pc' = [pc EXCEPT ![r] =
                     IF PoolSize(pool) < maxSize THEN "acquire_newPage"
                                                 ELSE "acquire_wait"]
         /\ UNCHANGED <<pool, timers, npPage>>

\* createPage with the capacity check of acquirePage: at maxSize it polls.
createPageChecked(r) ==
    /\ pc' = [pc EXCEPT ![r] =
                IF PoolSize(pool) < maxSize THEN "create_newPage"
                                            ELSE "acquire_wait"]
    /\ UNCHANGED <<pool, timers, npPage>>

\* createPage up to its first suspension: createNewPage, whatever the size.
createPage(r) ==
    /\ pc' = [pc EXCEPT ![r] = "create_newPage"]
    /\ UNCHANGED <<pool, timers, npPage>>

----------------------------------------------------------------------------
(* Render.render and Render.newPage *)

\* The exit of render that leaves the echo registered.
ThrowKeepEcho(r) ==
    /\ list' = list
    /\ pc' = [pc EXCEPT ![r] = "done"]
    /\ outcome' = [outcome EXCEPT ![r] = "threw"]
    /\ released' = released

\* The exit of render when its local `page` is undefined: the catch block
\* removes nothing, the finally block drops the echo and releases nothing,
\* and the error goes to the caller.
Throw(r) ==
    /\ list' = list \ {r}
    /\ pc' = [pc EXCEPT ![r] = "done"]
    /\ outcome' = [outcome EXCEPT ![r] = "threw"]
    /\ released' = released

\* The await of call r on driver call `at` raises.
Raise(r, at) == lastError' = [echo |-> r, at |-> at]

\* Render.render is called: the echo is registered and newPage asks the pool
\* for a page, a dedicated one when the task intercepts requests.
render(r) ==
    /\ pc[r] = "new"
    /\ UNCHANGED <<shotVars, crashVars, connVars, capVars>>
    /\ \E ic \in BOOLEAN :
        /\ data' = [data EXCEPT ![r] = [setRequestInterception |-> ic]]
        /\ IF ic THEN createPage(r) ELSE acquirePage(r)
    /\ list' = list \cup {r}
    /\ UNCHANGED <<evicting, nextPage, created, page, outcome, released,
                   lastError>>

\* How an awaited driver call can settle: it passes (TRUE) or raises
\* (FALSE); on a disconnected browser every call raises.
Replies == IF connected THEN BOOLEAN ELSE {FALSE}

\* The ways a run of driver calls can end: one of them raises, or, on a
\* connected browser, none does.
Raises(calls) == IF connected THEN calls \cup {"none"} ELSE calls

\* browser.newPage() settles inside createNewPage: a delivered page is
\* stored as an idle slot and its key returned; an error goes up through
\* acquirePage or createPage and newPage to render.
createNewPage(r) ==
    /\ pc[r] \in {"acquire_newPage", "create_newPage"}
    /\ UNCHANGED <<shotVars, crashVars, connVars, capVars>>
    /\ \E delivered \in Replies :
        IF delivered
        THEN /\ pool' = PoolSet(pool, nextPage)
             /\ created' = [created EXCEPT ![r] = nextPage]
             /\ nextPage' = nextPage + 1
             /\ pc' = [pc EXCEPT ![r] =
                         IF pc[r] = "acquire_newPage" THEN "acquire_created"
                                                      ELSE "create_created"]
             /\ UNCHANGED <<timers, evicting, list, data, npPage, page,
                            outcome, released, lastError>>
        ELSE /\ Raise(r, "browser.newPage")
             /\ Throw(r)
             /\ UNCHANGED <<poolVars, data, created, npPage, page>>

\* The caller of createNewPage resumes: pool.get(id)!, status busy, return
\* the page.  With the slot gone, info is undefined and the assignment
\* raises a TypeError.
MarkBusy(r) ==
    IF created[r] \in DOMAIN pool
    THEN /\ pool' = SetStatus(pool, created[r], "busy")
         /\ Obtain(r, created[r])
         /\ UNCHANGED <<timers, evicting, nextPage, list, data, created,
                        page, outcome, released, lastError>>
    ELSE /\ Raise(r, "TypeError")
         /\ Throw(r)
         /\ UNCHANGED <<poolVars, data, created, npPage, page>>

\* acquirePage resumes after createNewPage.
acquirePageCreated(r) ==
    /\ pc[r] = "acquire_created"
    /\ UNCHANGED <<shotVars, crashVars, connVars, capVars>>
    /\ MarkBusy(r)

\* createPage resumes after createNewPage.
createPageCreated(r) ==
    /\ pc[r] = "create_created"
    /\ UNCHANGED <<shotVars, crashVars, connVars, capVars>>
    /\ MarkBusy(r)

\* The poll giving up: the waiter raises a timeout to its render.
acquirePagePollTimeout(r) ==
    /\ pc[r] = "acquire_wait"
    /\ UNCHANGED <<shotVars, crashVars, connVars, capVars>>
    /\ ~InMicrotaskGap
    /\ Raise(r, "timeout")
    /\ Throw(r)
    /\ UNCHANGED <<poolVars, data, created, npPage, page>>

\* A tick of the waiter's setInterval that finds an idle slot: it takes the
\* first one.  A tick that finds none changes nothing.
acquirePagePoll(r) ==
    /\ pc[r] = "acquire_wait"
    /\ UNCHANGED <<shotVars, crashVars, connVars, capVars>>
    /\ ~InMicrotaskGap
    /\ IdleIds(pool) # {}
    /\ pool' = SetStatus(pool, FirstIdle(pool), "busy")
    /\ timers' = timers \ {FirstIdle(pool)}
    /\ Obtain(r, FirstIdle(pool))
    /\ UNCHANGED <<evicting, nextPage, list, data, created, page, outcome,
                   released,
                   lastError>>

\* The driver calls newPage awaits on the page it obtained, in order; each
\* can raise.  The optional waits (waitForSelector, waitForFunction,
\* waitForRequest, waitForResponse of the task) swallow their errors.
NewPageCalls(d) ==
    IF d.setRequestInterception
    THEN {"setExtraHTTPHeaders", "setRequestInterception", "goto",
          "waitForSelector"}
    ELSE {"setExtraHTTPHeaders", "goto", "waitForSelector"}

\* newPage runs its driver calls.  When all pass it returns the page, which
\* render stores in its local `page`.  When one raises, newPage raises and
\* render's `page` was never assigned.
newPage(r) ==
    /\ pc[r] = "newPage"
    /\ UNCHANGED <<shotVars, crashVars, connVars, capVars>>
    /\ ~InMicrotaskGap
    /\ \E at \in Raises(NewPageCalls(data[r])) :
        IF at = "none"
        THEN /\ page' = [page EXCEPT ![r] = npPage[r]]
             /\ pc' = [pc EXCEPT ![r] = "capture"]
             /\ UNCHANGED <<list, outcome, released, lastError>>
        ELSE /\ Raise(r, at)
             /\ Throw(r)
             /\ UNCHANGED page
    /\ UNCHANGED <<poolVars, data, created, npPage>>

----------------------------------------------------------------------------
(* PagePool.releasePage, PagePool.removePage, PagePool.startIdleTimer *)

\* startIdleTimer(id): the slot's pending timeout is cleared and a new one
\* set.  tm is the set of handles with a pending timeout.
startIdleTimer(pl, tm, i) == IF i \in DOMAIN pl THEN tm \cup {i} ELSE tm

\* releasePage that stores a slot for a handle it does not find.
releasePageUpsert(pl, p) ==
    [j \in DOMAIN pl \cup {p} |-> IF j = p THEN NewSlot ELSE pl[j]]

\* releasePage(p), the pool after it: the slot of p becomes idle; a handle
\* that is in no slot changes nothing.
releasePage(pl, p) == IF p \in DOMAIN pl THEN SetStatus(pl, p, "idle") ELSE pl

\* releasePage that starts no idle timeout.
releasePageNoTimer(pl, tm, p) == tm

\* releasePage(p), the pending timeouts after it.
releasePageTimers(pl, tm, p) ==
    IF p \in DOMAIN pl THEN startIdleTimer(releasePage(pl, p), tm, p) ELSE tm

\* The driver calls of the capture, after newPage returned: page.screenshot
\* (full page), or the element lookup, its bounding box, the viewport and
\* page.screenshot or one body.screenshot per slice.
CaptureCalls == {"screenshot", "elementHandle", "boundingBox", "setViewport"}

\* The capture settles.  Without an error the finally block drops the echo
\* and releases the page, and render returns the image.  With an error the
\* catch block calls removePage, which clears the slot's timeout and awaits
\* page.close() when the page is in the pool, and returns at once when it
\* is not.
capture(r) ==
    /\ pc[r] = "capture"
    /\ UNCHANGED <<shotVars, crashVars, connVars, capVars>>
    /\ ~InMicrotaskGap
    /\ \E at \in Raises(CaptureCalls) :
        IF at = "none"
        THEN /\ pool' = releasePage(pool, page[r])
             /\ timers' = releasePageTimers(pool, timers, page[r])
             /\ list' = list \ {r}
             /\ pc' = [pc EXCEPT ![r] = "done"]
             /\ outcome' = [outcome EXCEPT ![r] = "returned"]
             /\ released' = [released EXCEPT
                                ![r] = Append(@, page[r] \in DOMAIN pool)]
             /\ UNCHANGED <<page, lastError>>
        ELSE IF page[r] \in DOMAIN pool
        THEN /\ timers' = timers \ {page[r]}
             /\ pc' = [pc EXCEPT ![r] = "removePage"]
             /\ Raise(r, at)
             /\ UNCHANGED <<pool, list, page, outcome, released>>
        ELSE /\ Raise(r, at)
             /\ Throw(r)
             /\ page' = [page EXCEPT ![r] = NoPage]
             /\ UNCHANGED <<pool, timers>>
    /\ UNCHANGED <<evicting, nextPage, data, created, npPage>>

\* page.close() settles inside removePage (its error is swallowed): the slot
\* is deleted, render clears its `page`, drops the echo and rethrows.
removePage(r) ==
    /\ pc[r] = "removePage"
    /\ UNCHANGED <<shotVars, crashVars, connVars, capVars>>
    /\ ~InMicrotaskGap
    /\ pool' = PoolDelete(pool, page[r])
    /\ page' = [page EXCEPT ![r] = NoPage]
    /\ Throw(r)
    /\ UNCHANGED <<timers, evicting, nextPage, data, created, npPage, lastError>>

\* The idle timeout of slot i fires: a slot that is still there and idle is
\* closed, which the callback awaits.
idleTimer(i) ==
    /\ i \in timers
    /\ UNCHANGED <<shotVars, crashVars, connVars, capVars>>
    /\ ~InMicrotaskGap
    /\ timers' = timers \ {i}
    /\ evicting' = IF i \in DOMAIN pool /\ pool[i].status = "idle"
                   THEN evicting \cup {i} ELSE evicting
    /\ UNCHANGED <<pool, nextPage, callVars>>

\* page.close() settles inside the timer callback: pool.delete(id).
idleTimerClosed(i) ==
    /\ i \in evicting
    /\ UNCHANGED <<shotVars, crashVars, connVars, capVars>>
    /\ ~InMicrotaskGap
    /\ pool' = PoolDelete(pool, i)
    /\ evicting' = evicting \ {i}
    /\ UNCHANGED <<timers, nextPage, callVars>>

----------------------------------------------------------------------------
(* Puppeteer.screenshot and Puppeteer.task *)

\* A screenshot call that was not made yet has no task.
NoOptions == [fullPage |-> FALSE, multiPage |-> FALSE, encoding |-> "binary"]

\* The tasks tried: the full page as bytes, an element as base64 text, an
\* element in slices as bytes.
Tasks ==
    {[fullPage |-> TRUE, multiPage |-> FALSE, encoding |-> "binary"],
     [fullPage |-> FALSE, multiPage |-> FALSE, encoding |-> "base64"],
     [fullPage |-> FALSE, multiPage |-> TRUE, encoding |-> "binary"]}

\* What page.screenshot and body.screenshot give for the encoding: base64
\* text is a string, bytes are a Buffer.
Encoded(o) == IF o.encoding = "base64" THEN "string" ELSE "Buffer"

\* What Render.render returns for a task when no driver call raises: the
\* image of the full page, else the image of the element, else the list of
\* the slices.
RenderResult(o) ==
    IF o.fullPage THEN Encoded(o)
    ELSE IF ~o.multiPage THEN Encoded(o)
    ELSE "array"

\* The ways a dispatch of task o can settle: render returns, or raises.
Settles(o) == {RenderResult(o), "error"}

\* Array.isArray(result) || Buffer.isBuffer(result)
IsValid(k) == k = "array" \/ k = "Buffer"

\* The ways the dispatch in flight of screenshot call s can settle: with no
\* instance to render on, `browser!.render` raises a TypeError.
Dispatched(s) ==
    IF target[s] = NoInstance THEN {"error"} ELSE Settles(options[s])

\* task leaving the front instance at the front.
RotateStay(rot) == rot

\* Puppeteer.task on a rotation with an instance: the front instance
\* renders and goes to the back.
Rotate(rot) == Append(Tail(rot), Head(rot))

\* Puppeteer.task, called by screenshot call s: a dispatch.  The shift, the
\* render call and the push run without a suspension.  On an empty rotation
\* `browser` is undefined, nothing is pushed and the render call raises.
task(s) ==
    /\ dispatches' = [dispatches EXCEPT ![s] = @ + 1]
    /\ IF rotation = <<>>
       THEN /\ target' = [target EXCEPT ![s] = NoInstance]
            /\ UNCHANGED <<rotation, renders>>
       ELSE /\ target' = [target EXCEPT ![s] = Head(rotation)]
            /\ renders' = [renders EXCEPT ![Head(rotation)] = @ + 1]
            /\ rotation' = Rotate(rotation)

\* Puppeteer.screenshot is called: the first dispatch.
screenshot(s) ==
    /\ shotPc[s] = "new"
    /\ \E o \in Tasks : options' = [options EXCEPT ![s] = o]
    /\ task(s)
    /\ shotPc' = [shotPc EXCEPT ![s] = "first"]
    /\ UNCHANGED <<first, result, index, launching, removed, poolVars,
                   callVars, connVars, capVars>>

\* The first dispatch settles.  An error goes to the caller of screenshot.
\* A result that is an array or a Buffer is returned.  Any other result is
\* logged as a failure and the task is dispatched again.
screenshotFirst(s) ==
    /\ shotPc[s] = "first"
    /\ \E k \in Dispatched(s) :
        /\ first' = [first EXCEPT ![s] = k]
        /\ IF k = "error" \/ IsValid(k)
           THEN /\ result' = [result EXCEPT ![s] = [kind |-> k, dispatch |-> 1]]
                /\ shotPc' = [shotPc EXCEPT ![s] = "done"]
                /\ UNCHANGED <<rotation, dispatches, target, renders>>
           ELSE /\ task(s)
                /\ shotPc' = [shotPc EXCEPT ![s] = "second"]
                /\ UNCHANGED result
    /\ UNCHANGED <<options, index, launching, removed, poolVars, callVars,
                   connVars, capVars>>

\* screenshot checking the second result like the first: a result that is
\* neither an array nor a Buffer is dispatched once more.
screenshotSecondChecked(s) ==
    /\ shotPc[s] = "second"
    /\ \E k \in Dispatched(s) :
        IF k = "error" \/ IsValid(k)
        THEN /\ result' = [result EXCEPT ![s] = [kind |-> k, dispatch |-> 2]]
             /\ shotPc' = [shotPc EXCEPT ![s] = "done"]
             /\ UNCHANGED <<rotation, dispatches, target, renders>>
        ELSE /\ task(s)
             /\ UNCHANGED <<shotPc, result>>
    /\ UNCHANGED <<options, first, index, launching, removed, poolVars,
                   callVars, connVars, capVars>>

\* The second dispatch settles: its result or its error is the call's.
screenshotSecond(s) ==
    /\ shotPc[s] = "second"
    /\ \E k \in Dispatched(s) :
        result' = [result EXCEPT ![s] = [kind |-> k, dispatch |-> 2]]
    /\ shotPc' = [shotPc EXCEPT ![s] = "done"]
    /\ UNCHANGED <<rotation, options, dispatches, first, target, crashVars,
                   poolVars, callVars, connVars, capVars>>

----------------------------------------------------------------------------
(* Puppeteer.launch and the browserCrash listener of Puppeteer.init *)

\* The ids in a list of instances.
Range(q) == {q[k] : k \in 1..Len(q)}

\* list.splice(index, 1) at the first instance with id x, when there is one.
Splice(rot, x) ==
    IF x \in Range(rot)
    THEN LET k == CHOOSE j \in 1..Len(rot) :
                     rot[j] = x /\ \A m \in 1..(j - 1) : rot[m] # x
         IN  SubSeq(rot, 1, k - 1) \o SubSeq(rot, k + 1, Len(rot))
    ELSE rot

\* launch that starts nothing.
launchNone == UNCHANGED <<index, launching>>

\* launch that leaves Puppeteer.index where it is.
launchSameIndex ==
    /\ launching' = Append(launching, index)
    /\ UNCHANGED index

\* Puppeteer.launch up to its suspension: new Render(this.index++, ...) and
\* the await of its init().
launch ==
    /\ launching' = Append(launching, index)
    /\ index' = index + 1

\* The listener restarting the instance under its own id.
browserCrashRestart(x) ==
    /\ index < MaxBrowsers + MaxCrashes
    /\ rotation' = Splice(rotation, x)
    /\ removed' = IF x \in Range(rotation) THEN removed \cup {x} ELSE removed
    /\ launching' = Append(launching, x)
    /\ UNCHANGED <<index, renders, options, shotPc, dispatches, first, result,
                   target, poolVars, callVars, connVars, capVars>>

\* The browserCrash listener, notified of id x: the instance with that id,
\* if the rotation has one, is taken out; then launch() is called and not
\* awaited.
browserCrashListener(x) ==
    /\ index < MaxBrowsers + MaxCrashes
    /\ rotation' = Splice(rotation, x)
    /\ removed' = IF x \in Range(rotation) THEN removed \cup {x} ELSE removed
    /\ launch
    /\ UNCHANGED <<renders, options, shotPc, dispatches, first, result, target>>

\* A browserCrash notification for id x reaches the dispatcher.
browserCrash(x) ==
    /\ browserCrashListener(x)
    /\ UNCHANGED <<poolVars, callVars, connVars, capVars>>

\* The init() of the k-th instance being launched settles: a browser that
\* started is pushed onto the rotation; when puppeteer.launch raised, launch()
\* rejects and nothing is pushed.
launchDone(k) ==
    /\ k \in 1..Len(launching)
    /\ launching' = SubSeq(launching, 1, k - 1)
                        \o SubSeq(launching, k + 1, Len(launching))
    /\ \E started \in BOOLEAN :
        rotation' = IF started THEN Append(rotation, launching[k]) ELSE rotation
    /\ UNCHANGED <<index, renders, removed, options, shotPc, dispatches, first,
                   result, target, poolVars, callVars, connVars, capVars>>

----------------------------------------------------------------------------
(* Puppeteer.init *)

\* config.browserCount was not given (undefined).
NoCount == -1

\* The values of config.browserCount tried.
Configs == {NoCount} \cup 0..MaxBrowsers

\* this.config.browserCount || 1
browserCount(c) == IF c = NoCount \/ c = 0 THEN 1 ELSE c

\* launch putting the new instance at the front of the list.
unshift(rot, id) == <<id>> \o rot

\* this.list.push(browser)
push(rot, id) == Append(rot, id)

\* Puppeteer.init is called on a new Puppeteer: the browserCrash listener is
\* registered and the first launch() awaited (browserCount || 1 is 1 at
\* least).
init ==
    /\ initPc = "new"
    /\ \E c \in Configs : config' = c
    /\ initI' = 0
    /\ initId' = index
    /\ index' = index + 1
    /\ initPc' = "launching"
    /\ UNCHANGED <<launching, renders, removed, poolVars, callVars, shotVars,
                   capVars, linkVars, poolsVars, simVars>>

\* The launch() init awaits settles.  An instance whose init() passed is
\* pushed and the loop goes on: the next launch(), or init returns.  When
\* init() raised, launch() rejects and so does Puppeteer.init.
initLaunched ==
    /\ initPc = "launching"
    /\ \E started \in BOOLEAN :
        IF ~started
        THEN /\ initPc' = "raised"
             /\ UNCHANGED <<rotation, initI, initId, index>>
        ELSE /\ rotation' = push(rotation, initId)
             /\ initI' = initI + 1
             /\ IF initI + 1 < browserCount(config)
                THEN /\ initId' = index
                     /\ index' = index + 1
                     /\ UNCHANGED initPc
                ELSE /\ initPc' = "done"
                     /\ UNCHANGED <<initId, index>>
    /\ UNCHANGED <<config, launching, renders, removed, options, shotPc,
                   dispatches, first, result, target, poolVars, callVars,
                   capVars, linkVars, poolsVars, simVars>>

\* No Puppeteer.init is looked at (active is FALSE), or one is about to be
\* called.
BootInit(active) ==
    /\ config = NoCount
    /\ initI = 0
    /\ initId = NoInstance
    /\ initPc = IF active THEN "new" ELSE "none"

----------------------------------------------------------------------------
(* Two Puppeteers on the one `common` emitter of the process *)

\* No instance has disconnected yet.
NoCrash == [pool |-> "none", id |-> NoInstance, n |-> 0]

\* The browserCrash listener of the second Puppeteer, notified of id x: the
\* same code on its own list and index.
otherListener(o, x) ==
    [list |-> Splice(o.list, x),
     index |-> o.index + 1,
     launching |-> Append(o.launching, o.index)]

\* Instance x of the Puppeteer `owner` has disconnected and its Render emits
\* browserCrash with x on `common`: every listener registered there runs,
\* the one of this Puppeteer and the one of the other, each with the bare id.
instanceCrash(owner, x) ==
    /\ x \in IF owner = "this" THEN Range(rotation) ELSE Range(other.list)
    /\ other.index < MaxBrowsers + MaxCrashes
    /\ browserCrashListener(x)
    /\ other' = otherListener(other, x)
    /\ lastCrash' = [pool |-> owner, id |-> x, n |-> lastCrash.n + 1]
    /\ UNCHANGED <<poolVars, callVars, capVars, linkVars, bootVars, simVars>>

\* The init() of the k-th instance the second Puppeteer is launching
\* settles.
otherLaunchDone(k) ==
    /\ k \in 1..Len(other.launching)
    /\ \E started \in BOOLEAN :
        other' = [other EXCEPT
                    !.launching = SubSeq(@, 1, k - 1) \o SubSeq(@, k + 1, Len(@)),
                    !.list = IF started THEN push(@, other.launching[k]) ELSE @]
    /\ UNCHANGED <<lastCrash, poolVars, callVars, shotVars, crashVars, capVars,
                   linkVars, bootVars, simVars>>

\* A second Puppeteer whose init launched n instances (none: there is no
\* second Puppeteer).
PoolsInit(n) ==
    /\ other = [list |-> [i \in 1..n |-> i - 1], index |-> n, launching |-> <<>>]
    /\ lastCrash = NoCrash

----------------------------------------------------------------------------
(* Render.simulateWaitUntil *)

\* The pages whose load is simulated at the same time, and the urls they
\* request.
SimPages == {1, 2}
SimUrls == {"a", "b"}

\* The url was requested and its entry deleted from the map since.
Gone == -1

\* Object.keys(list): the urls with an entry in the map.  m holds, for every
\* url requested so far, its count, or Gone.
Keys(m) == {u \in DOMAIN m : m[u] # Gone}

\* m with url u at v.
Put(m, u, v) == [w \in DOMAIN m \cup {u} |-> IF w = u THEN v ELSE m[w]]

\* The listeners of 'end' that leave their promise pending.
EndPcPending(sp) == sp

\* common.emit('end', bool), the calls after it: every `once` listener
\* registered resolves the promise of its call.
EndPc(sp) ==
    [q \in SimPages |-> IF sp[q] = "waiting" THEN "ended" ELSE sp[q]]

\* common.emit('end', bool), the timeouts after it: every listener
\* registered clears the timeout of its call when bool is true.
EndTimer(sp, st, bool) ==
    [q \in SimPages |-> IF sp[q] = "waiting" /\ bool THEN FALSE ELSE st[q]]

\* simulateWaitUntil(page, data) up to its first await: an empty map, the
\* handlers on the page, the load started, the 10 s timeout set and the
\* listener of 'end' registered.
simulateWaitUntil(p) ==
    /\ simPc[p] = "new"
    /\ simPc' = [simPc EXCEPT ![p] = "waiting"]
    /\ simTimer' = [simTimer EXCEPT ![p] = TRUE]
    /\ UNCHANGED <<simList, lastSignal, poolVars, callVars, shotVars,
                   crashVars, capVars, linkVars, bootVars, poolsVars>>

\* The 'request' handler of page p, for url u: the first request for a url
\* stores 0, a later one counts up.
request(p, u) ==
    /\ simPc[p] # "new"
    /\ IF u \in Keys(simList[p])
       THEN /\ simList[p][u] < MaxReqs
            /\ simList' = [simList EXCEPT ![p] = Put(@, u, @[u] + 1)]
       ELSE simList' = [simList EXCEPT ![p] = Put(@, u, 0)]
    /\ UNCHANGED <<simPc, simTimer, lastSignal, poolVars, callVars, shotVars,
                   crashVars, capVars, linkVars, bootVars, poolsVars>>

\* delCount(url), the map after it: a count above 0 goes down by one, and an
\* entry at 0 or below is deleted.
delCountList(m, u) ==
    IF u \notin Keys(m) THEN m
    ELSE LET v == IF m[u] # 0 THEN m[u] - 1 ELSE m[u]
         IN  Put(m, u, IF v <= 0 THEN Gone ELSE v)

\* The 'response', 'requestfailed' or 'requestfinished' handler of page p,
\* for a url u it requested: delCount(u), which emits 'end' with true when
\* the map has no key left.
delCount(p, u) ==
    /\ simPc[p] # "new"
    /\ u \in DOMAIN simList[p]
    /\ simList' = [simList EXCEPT ![p] = delCountList(@, u)]
    /\ IF Keys(simList'[p]) = {}
       THEN /\ simPc' = EndPc(simPc)
            /\ simTimer' = EndTimer(simPc, simTimer, TRUE)
            /\ lastSignal' = [from |-> p, bool |-> TRUE]
       ELSE UNCHANGED <<simPc, simTimer, lastSignal>>
    /\ UNCHANGED <<poolVars, callVars, shotVars, crashVars, capVars, linkVars,
                   bootVars, poolsVars>>

\* The 10 s timeout of the call for page p fires: its promise is resolved
\* and 'end' emitted with false.
ceiling(p) ==
    /\ simTimer[p]
    /\ simPc' = EndPc(simPc)
    /\ simTimer' = [simTimer EXCEPT ![p] = FALSE]
    /\ lastSignal' = [from |-> p, bool |-> FALSE]
    /\ UNCHANGED <<simList, poolVars, callVars, shotVars, crashVars, capVars,
                   linkVars, bootVars, poolsVars>>

\* No simulateWaitUntil was called yet.
SimInit ==
    /\ simPc = [p \in SimPages |-> "new"]
    /\ simList = [p \in SimPages |-> [u \in {} |-> 0]]
    /\ simTimer = [p \in SimPages |-> FALSE]
    /\ lastSignal = [from |-> 0, bool |-> FALSE]

----------------------------------------------------------------------------
(* Render.render from the options to its exit: one capture *)

\* The heights of the element tried, and the widths.
BoxHeights == {700, 2000, 4500}
BoxWidths == {800}

\* The slice heights a task gives as multiPage.
SliceHeights == {1000, 2000}

\* body.boundingBox(): null, or the box of the element.
Boxes ==
    {[null |-> TRUE, width |-> 0, height |-> 0]}
        \cup [null : {FALSE}, width : BoxWidths, height : BoxHeights]

\* The tasks tried.  multiPage is false, true or a number; sliceHeight is
\* that number, the slice height asked for.
CapTasks ==
    [type : {"undefined", "png", "jpeg"},
     quality : {NoQuality, 50, 90},
     fullPage : BOOLEAN,
     multiPage : {"false", "true"},
     sliceHeight : {0}]
        \cup [type : {"undefined", "png", "jpeg"},
              quality : {NoQuality, 50, 90},
              fullPage : BOOLEAN,
              multiPage : {"number"},
              sliceHeight : SliceHeights]

\* No capture: the task and the box before they are known.
NoTask == [type |-> "undefined", quality |-> NoQuality, fullPage |-> FALSE,
           multiPage |-> "false", sliceHeight |-> 0]

\* A value `||` and `&&` take as false: undefined, 0.
Falsy(q) == q = NoQuality \/ q = 0

\* options.quality: data.quality || 90, then undefined for type png.
OptionsQuality(d) ==
    LET q == IF Falsy(d.quality) THEN 90 ELSE d.quality
    IN  IF ~Falsy(q) /\ d.type = "png" THEN NoQuality ELSE q

\* data.multiPage is taken as true.
Paginated(d) == d.multiPage # "false"

\* box?.width ?? 1200, box?.height ?? 2000
boxWidth(box) == IF box.null THEN 1200 ELSE box.width
boxHeight(box) == IF box.null THEN 2000 ELSE box.height

\* The slice height: the number given as multiPage, else 2000 capped to the
\* height of the box.
height(d, box) ==
    IF d.multiPage = "number" THEN d.sliceHeight
    ELSE IF boxHeight(box) >= 2000 THEN 2000 ELSE boxHeight(box)

\* Math.ceil(a / b) for positive integers.
Ceil(a, b) == (a + b - 1) \div b

\* The number of slices.
count(d, box) == Ceil(boxHeight(box), height(d, box))

Min(a, b) == IF a <= b THEN a ELSE b

\* The clip of slice i with no band shared with the slice before it.
ClipNoOverlap(i, h, H, W) ==
    [x |-> 0, y |-> i * h, width |-> W, height |-> Min(h, H - i * h)]

\* The clip of slice i, for slice height h in a box H high and W wide: from
\* the second slice on, y is 100 less and the height 100 more.
Clip(i, h, H, W) ==
    LET y == i * h
        clipHeight == Min(h, H - i * h)
    IN  IF i # 0
        THEN [x |-> 0, y |-> y - 100, width |-> W, height |-> clipHeight + 100]
        ELSE [x |-> 0, y |-> y, width |-> W, height |-> clipHeight]

\* A screenshot call without a clip.
NoClip == [x |-> 0, y |-> 0, width |-> 0, height |-> 0]

\* The page the capture looked at alone holds: the first slot of the pool.
CapPage == 1

\* The frame of a step of the capture.
CapFrame == UNCHANGED <<callVars, shotVars, crashVars, connVars, waitVars>>

\* The capture goes on to its next driver call.
CapGoes(to) ==
    /\ capPc' = to
    /\ UNCHANGED <<capReturn, poolVars>>

\* A driver call of the capture raised: the catch block calls removePage,
\* which clears the deadline of the slot and awaits page.close().
CapCaught ==
    /\ capPc' = "removePage"
    /\ timers' = timers \ {CapPage}
    /\ UNCHANGED <<capReturn, pool, evicting, nextPage>>

\* render returns v: the finally block releases the page.
CapReturns(v) ==
    /\ capPc' = "done"
    /\ capReturn' = v
    /\ pool' = releasePage(pool, CapPage)
    /\ timers' = releasePageTimers(pool, timers, CapPage)
    /\ UNCHANGED <<evicting, nextPage>>

\* render builds the options of a task.  A full-page task goes on to
\* page.screenshot; any other task looks up the element and its box first.
renderOptions ==
    /\ capPc = "options"
    /\ \E d \in CapTasks : capData' = d
    /\ CapGoes(IF capData'.fullPage THEN "fullPage" ELSE "boundingBox")
    /\ UNCHANGED <<capBox, capCalls>>
    /\ CapFrame

\* page.screenshot(options) of the full page settles; the image is returned
\* after the viewport is set back, when the task gives one.
screenshotFullPage ==
    /\ capPc = "fullPage"
    /\ \E ok \in Replies, viewport \in Replies :
        /\ capCalls' = Append(capCalls, [on |-> "page", clip |-> NoClip, ok |-> ok,
                                         quality |-> OptionsQuality(capData)])
        /\ IF ok /\ viewport THEN CapReturns("image") ELSE CapCaught
    /\ UNCHANGED <<capData, capBox>>
    /\ CapFrame

\* The element lookup, body.boundingBox() and the viewport settle; an
\* element task goes on to page.screenshot, a paginated one to its loop,
\* which returns an empty list when it has no turn.
boundingBox ==
    /\ capPc = "boundingBox"
    /\ \E box \in Boxes, ok \in Replies :
        IF ok
        THEN /\ capBox' = box
             /\ IF ~Paginated(capData) THEN CapGoes("element")
                ELSE IF count(capData, box) > 0 THEN CapGoes("slices")
                ELSE CapReturns("list")
        ELSE /\ CapCaught
             /\ UNCHANGED capBox
    /\ UNCHANGED <<capData, capCalls>>
    /\ CapFrame

\* page.screenshot(options) of the element settles.
screenshotElement ==
    /\ capPc = "element"
    /\ \E ok \in Replies :
        /\ capCalls' = Append(capCalls, [on |-> "page", clip |-> NoClip, ok |-> ok,
                                         quality |-> OptionsQuality(capData)])
        /\ IF ok THEN CapReturns("image") ELSE CapCaught
    /\ UNCHANGED <<capData, capBox>>
    /\ CapFrame

\* The loop after a failed slice: it goes on with the next slice and the
\* list returned holds the slices that passed.
screenshotSliceSkip ==
    /\ capPc = "slices"
    /\ \E ok \in Replies :
        LET i == Len(capCalls)
        IN  /\ capCalls' = Append(capCalls,
                   [on |-> "body", ok |-> ok,
                    clip |-> Clip(i, height(capData, capBox),
                                  boxHeight(capBox), boxWidth(capBox)),
                    quality |-> capData.quality])
            /\ IF i + 1 < count(capData, capBox) THEN CapGoes("slices")
               ELSE CapReturns("list")
    /\ UNCHANGED <<capData, capBox>>
    /\ CapFrame

\* One turn of the loop: data.clip is set and body.screenshot(data) called,
\* with the task itself as its options.  After the last slice the list is
\* returned; a slice that raises ends the loop.
screenshotSlice ==
    /\ capPc = "slices"
    /\ \E ok \in Replies :
        LET i == Len(capCalls)
        IN  /\ capCalls' = Append(capCalls,
                   [on |-> "body", ok |-> ok,
                    clip |-> Clip(i, height(capData, capBox),
                                  boxHeight(capBox), boxWidth(capBox)),
                    quality |-> capData.quality])
            /\ IF ~ok THEN CapCaught
               ELSE IF i + 1 < count(capData, capBox) THEN CapGoes("slices")
               ELSE CapReturns("list")
    /\ UNCHANGED <<capData, capBox>>
    /\ CapFrame

\* page.close() settles inside removePage: the slot is deleted and render
\* rethrows the error.
captureRemovePage ==
    /\ capPc = "removePage"
    /\ pool' = PoolDelete(pool, CapPage)
    /\ capPc' = "raised"
    /\ capReturn' = "error"
    /\ UNCHANGED <<timers, evicting, nextPage, capData, capBox, capCalls>>
    /\ CapFrame

----------------------------------------------------------------------------
(* Render.newPage from the wait for body to the return: the waits of one task *)

\* The optional waits, in the order newPage runs them.
WaitKinds == <<"waitForSelector", "waitForFunction", "waitForRequest",
               "waitForResponse">>

\* The tasks tried: for each optional wait, the number of conditions given
\* (none, or a list; one condition alone is made a list of one).
WaitTasks == [{WaitKinds[k] : k \in 1..4} -> 0..MaxConds]

\* n conditions of one kind.
Conds(kind, n) == [j \in 1..n |-> kind]

\* The conditions newPage awaits for task t, in order.
Conditions(t) ==
    Conds(WaitKinds[1], t[WaitKinds[1]]) \o Conds(WaitKinds[2], t[WaitKinds[2]])
        \o Conds(WaitKinds[3], t[WaitKinds[3]])
        \o Conds(WaitKinds[4], t[WaitKinds[4]])

\* How the promise of a wait can settle.
WaitOutcomes == {"passed", "rejected", "timeout"}

\* page.waitForSelector('body') settles: newPage raises when it raised,
\* else goes on to the optional waits of the task and returns the page when
\* there is none.
waitForBody ==
    /\ waitPc = "body"
    /\ \E t \in WaitTasks, ok \in Replies :
        /\ waitTask' = t
        /\ waitPc' = IF ~ok THEN "raised"
                      ELSE IF Conditions(t) = <<>> THEN "returned" ELSE "waits"
    /\ UNCHANGED <<waited, capData, capBox, capPc, capCalls, capReturn,
                   poolVars, callVars, shotVars, crashVars, connVars>>

\* An optional wait whose rejection is not caught: newPage raises.
waitOptionalStrict ==
    /\ waitPc = "waits"
    /\ \E o \in WaitOutcomes :
        LET k == Len(waited) + 1
        IN  /\ waited' = Append(waited, [kind |-> Conditions(waitTask)[k],
                                         outcome |-> o])
            /\ waitPc' = IF o # "passed" THEN "raised"
                          ELSE IF k = Len(Conditions(waitTask)) THEN "returned"
                          ELSE "waits"
    /\ UNCHANGED <<waitTask, capData, capBox, capPc, capCalls, capReturn,
                   poolVars, callVars, shotVars, crashVars, connVars>>

\* The next optional wait settles; `.catch(() => { })` takes its rejection.
\* After the last one newPage returns the page.
waitOptional ==
    /\ waitPc = "waits"
    /\ \E o \in WaitOutcomes :
        LET k == Len(waited) + 1
        IN  /\ waited' = Append(waited, [kind |-> Conditions(waitTask)[k],
                                         outcome |-> o])
            /\ waitPc' = IF k = Len(Conditions(waitTask)) THEN "returned"
                          ELSE "waits"
    /\ UNCHANGED <<waitTask, capData, capBox, capPc, capCalls, capReturn,
                   poolVars, callVars, shotVars, crashVars, connVars>>

\* No newPage is looked at (active is FALSE), or one is at its wait for body.
WaitInit(active) ==
    /\ waitTask = [k \in {WaitKinds[j] : j \in 1..4} |-> 0]
    /\ waitPc = IF active THEN "body" ELSE "none"
    /\ waited = <<>>

\* No capture is looked at (active is FALSE), or one is about to start.
CaptureInit(active) ==
    /\ capData = NoTask
    /\ capBox = [null |-> TRUE, width |-> 0, height |-> 0]
    /\ capPc = IF active THEN "options" ELSE "none"
    /\ capCalls = <<>>
    /\ capReturn = "none"

\* The capture, and no newPage looked at alone.
CapInit(active) == CaptureInit(active) /\ WaitInit(FALSE)

----------------------------------------------------------------------------
(* The instance with its calls *)

\* The slots held by renders that do not settle in the window looked at (a
\* navigation that hangs holds its page for good): handles 1..n, busy.
Pinned(n) == [i \in 1..n |-> [status |-> "busy"]]

\* Instances 0..n-1 in the rotation, the screenshot calls in `issued` about
\* to be made.
ShotInit(n, issued) ==
    /\ rotation = [i \in 1..n |-> i - 1]
    /\ options = [s \in Shots |-> NoOptions]
    /\ shotPc = [s \in Shots |-> IF s \in issued THEN "new" ELSE "unissued"]
    /\ dispatches = [s \in Shots |-> 0]
    /\ first = [s \in Shots |-> "none"]
    /\ result = [s \in Shots |-> [kind |-> "none", dispatch |-> 0]]
    /\ target = [s \in Shots |-> NoInstance]
    /\ index = n
    /\ launching = <<>>
    /\ renders = [i \in Ids |-> 0]
    /\ removed = {}

\* One instance with n slots pinned, the calls in `issued` about to be made.
PoolOnly(n, issued) ==
    /\ pool = Pinned(n)
    /\ nextPage = n + 1
    /\ timers = {}
    /\ evicting = {}
    /\ list = {}
    /\ pc = [r \in Calls |-> IF r \in issued THEN "new" ELSE "unissued"]
    /\ data = [r \in Calls |-> [setRequestInterception |-> FALSE]]
    /\ created = [r \in Calls |-> NoPage]
    /\ npPage = [r \in Calls |-> NoPage]
    /\ page = [r \in Calls |-> NoPage]
    /\ outcome = [r \in Calls |-> "pending"]
    /\ released = [r \in Calls |-> <<>>]
    /\ lastError = [echo |-> 0, at |-> "none"]
    /\ connected = TRUE
    /\ closePc = "none"
    /\ closeAllAt = NoPage

\* One instance, and nothing else of the process looked at.
PoolInit(n, issued) ==
    /\ PoolOnly(n, issued)
    /\ BootInit(FALSE)
    /\ PoolsInit(0)
    /\ SimInit

Init ==
    /\ \E n \in (maxSize - MaxFree)..maxSize : PoolInit(n, Issued)
    /\ ShotInit(1, {})
    /\ CapInit(FALSE)

Next ==
    \/ \E r \in Calls : render(r)
    \/ \E r \in Calls : createNewPage(r)
    \/ \E r \in Calls : acquirePageCreated(r)
    \/ \E r \in Calls : createPageCreated(r)
    \/ \E r \in Calls : acquirePagePoll(r)
    \/ \E r \in Calls : newPage(r)
    \/ \E r \in Calls : capture(r)
    \/ \E r \in Calls : removePage(r)
    \/ \E i \in timers : idleTimer(i)
    \/ \E i \in evicting : idleTimerClosed(i)

\* One browser instance: its page pool and MaxCalls render calls.
Spec == Init /\ [][Next]_vars

\* The instance with room in its pool for one page at least, the slots
\* pinned being those earlier renders left busy.
InitFair ==
    /\ \E n \in (maxSize - MaxFree)..(maxSize - 1) : PoolInit(n, Issued)
    /\ ShotInit(1, {})
    /\ CapInit(FALSE)

\* Every driver call settles, every timer fires and every continuation
\* runs; the browser stays connected.
SpecFair == InitFair /\ [][Next]_vars /\ WF_vars(Next)

\* The same instance with one render call more.
InitLate ==
    /\ \E n \in (maxSize - MaxFree)..maxSize : PoolInit(n, Calls)
    /\ ShotInit(1, {})
    /\ CapInit(FALSE)

SpecLate == InitLate /\ [][Next]_vars

\* The dispatcher: screenshot calls on a rotation of one to MaxBrowsers
\* instances, each render seen only by how it settles.
InitShot ==
    /\ PoolInit(maxSize, {})
    /\ \E n \in 1..MaxBrowsers : ShotInit(n, Shots)
    /\ CapInit(FALSE)

NextShot ==
    \/ \E s \in Shots : screenshot(s)
    \/ \E s \in Shots : screenshotFirst(s)
    \/ \E s \in Shots : screenshotSecond(s)

SpecShot == InitShot /\ [][NextShot]_vars

\* The dispatcher with crashes: browserCrash notifications for any id and
\* the launches they start.
NextCrash ==
    \/ NextShot
    \/ \E x \in Ids : browserCrash(x)
    \/ \E k \in 1..Len(launching) : launchDone(k)

InitCrash ==
    /\ PoolInit(maxSize, {})
    /\ \E n \in 1..MaxBrowsers : ShotInit(n, CrashShots)
    /\ CapInit(FALSE)

SpecCrash == InitCrash /\ [][NextCrash]_vars

----------------------------------------------------------------------------
(* The claims *)

\* Call r holds a page: acquirePage or createPage returned it a handle and
\* the call has neither released nor removed it, nor ended.
Holding(r) == npPage[r] # NoPage /\ pc[r] \in {"newPage", "capture", "removePage"}

\* Render call r has ended by raising.
Failed(r) == pc[r] = "done" /\ outcome[r] = "threw"

\* acquirePage returns a handle to call r in this step.
AcquireReturns(r) ==
    /\ npPage[r] = NoPage
    /\ npPage'[r] # NoPage
    /\ ~data'[r].setRequestInterception

\* The slots pinned at the start: every handle but the ones the calls created.
PinnedCount == nextPage - 1 - Cardinality({r \in Calls : created[r] # NoPage})

\* C1: while createPage is never called, the pool holds at most maxSize
\* slots, idle and busy together.
C1_PoolWithinCapacity ==
    (\A r \in Calls : ~data[r].setRequestInterception)
        => PoolSize(pool) <= maxSize

\* C2: while only acquirePage is called and no render has ended (so no
\* releasePage, no removal and no eviction has happened), acquirePage has
\* handed out at most maxSize handles, those of the pinned holders and
\* those of the calls of the model together; with K+1 calls, one is still
\* waiting.
C2_OnlyKWithoutRelease ==
    (\A r \in Calls : outcome[r] = "pending" /\ ~data[r].setRequestInterception)
        => Cardinality((1..PinnedCount) \cup ({npPage[r] : r \in Calls} \ {NoPage}))
           <= maxSize

\* C3: no two render calls hold the same page handle at once.
C3_ExclusiveOwnership ==
    \A r1, r2 \in Calls :
        (r1 # r2 /\ Holding(r1) /\ Holding(r2)) => npPage[r1] # npPage[r2]

\* C4: when a render that had obtained a page has ended by raising, the slot
\* of that page is not in the pool.
C4_FailedPageRemoved ==
    \A r \in Calls :
        (Failed(r) /\ npPage[r] # NoPage) => npPage[r] \notin DOMAIN pool

\* C5: acquirePage never returns a handle that a render which has already
\* ended by raising had held.
C5_FailedPageNotReacquired ==
    [][\A r \in Calls :
         AcquireReturns(r)
            => \A q \in Calls : (Failed(q) /\ q # r) => npPage'[r] # npPage[q]]_vars

\* C6: acquirePage never returns the handle createPage gave to a task with
\* request interception whose render has ended.
C6_DedicatedPageNotReacquired ==
    [][\A r \in Calls :
         AcquireReturns(r)
            => \A q \in Calls :
                 (pc[q] = "done" /\ data[q].setRequestInterception /\ q # r)
                    => npPage'[r] # npPage[q]]_vars

\* C7: a createPage call never waits for a slot and never looks at the
\* capacity: it goes straight to createNewPage, all it then waits for is the
\* driver's reply and its own resumption, the page delivered becomes a slot
\* that was not there before, and the call returns that slot's handle with
\* the slot busy.
C7_CreatePageBypassesCapacity ==
    /\ [](\A r \in Calls :
            (pc[r] # "new" /\ data[r].setRequestInterception)
               => /\ pc[r] # "acquire_wait"
                  /\ pc[r] = "create_newPage" => ENABLED createNewPage(r)
                  /\ pc[r] = "create_created" => ENABLED createPageCreated(r))
    /\ [][\A r \in Calls :
            /\ (pc[r] = "create_newPage" /\ pc'[r] = "create_created")
                  => /\ created'[r] \notin DOMAIN pool
                     /\ DOMAIN pool' = DOMAIN pool \cup {created'[r]}
            /\ (pc[r] = "create_created" /\ pc'[r] = "newPage")
                  => /\ npPage'[r] = created[r]
                     /\ pool'[npPage'[r]].status = "busy"]_vars

\* C7, its case: a pool with maxSize busy slots, then every call of Spec a
\* createPage call that has returned its handle, all slots busy, no render
\* ended (so nothing was released).
C7_Witness ==
    /\ PinnedCount = maxSize
    /\ \A r \in Issued : data[r].setRequestInterception /\ pc[r] = "newPage"
    /\ Cardinality(BusyIds(pool)) = maxSize + MaxCalls

\* C8: a screenshot call whose first dispatch raised has dispatched a second
\* time and gives its caller what the second dispatch gave.
C8_RetryAfterError ==
    \A s \in Shots :
        (shotPc[s] = "done" /\ first[s] = "error")
            => dispatches[s] = 2 /\ result[s].dispatch = 2

\* C9: a screenshot call makes at most two dispatches.
C9_AtMostTwoDispatches == \A s \in Shots : dispatches[s] <= 2

\* C9, its case: a call that has ended after two dispatches.
C9_Witness == \E s \in Shots : shotPc[s] = "done" /\ dispatches[s] = 2

\* C10: a screenshot call whose first dispatch returned a render result has
\* dispatched once, and what it gives its caller is that result.
C10_NoSecondDispatchAfterResult ==
    \A s \in Shots :
        first[s] \in {"Buffer", "string", "array"}
            => /\ dispatches[s] = 1
               /\ shotPc[s] = "done" => result[s] = [kind |-> first[s], dispatch |-> 1]

----------------------------------------------------------------------------
(* The disconnected listener of Render.init and PagePool.closeAll *)

\* Render.id of the instance whose pool and calls are modelled.
ThisId == 0

\* The listener emitting browserCrash as soon as it runs, before closeAll
\* has closed a page.
closeAllFromEmitFirst(h) ==
    LET rest == {i \in DOMAIN pool : i > h}
    IN  /\ IF h = NoPage
           THEN browserCrashListener(ThisId)
           ELSE UNCHANGED <<shotVars, crashVars>>
        /\ IF rest # {}
           THEN LET i == CHOOSE j \in rest : \A k \in rest : j <= k
                IN  /\ timers' = timers \ {i}
                    /\ closeAllAt' = i
                    /\ closePc' = "closeAll"
                    /\ UNCHANGED pool
           ELSE /\ pool' = [i \in {} |-> NewSlot]
                /\ closePc' = "browser.close"
                /\ UNCHANGED <<timers, closeAllAt>>

\* One more slot is visited by the loop of closeAll, which goes through the
\* Map in insertion order from the slot after h: the slot's deadline is
\* cleared and the close of its page awaited.  With no slot left the pool is
\* cleared, closeAll returns and the listener emits browserCrash with the
\* id of the instance, which the dispatcher's listener handles at once;
\* then the listener calls browser.close() and awaits it.
closeAllFrom(h) ==
    LET rest == {i \in DOMAIN pool : i > h}
    IN  IF rest # {}
        THEN LET i == CHOOSE j \in rest : \A k \in rest : j <= k
             IN  /\ timers' = timers \ {i}
                 /\ closeAllAt' = i
                 /\ closePc' = "closeAll"
                 /\ UNCHANGED <<pool, shotVars, crashVars>>
        ELSE /\ pool' = [i \in {} |-> NewSlot]
             /\ closePc' = "browser.close"
             /\ browserCrashListener(ThisId)
             /\ UNCHANGED <<timers, closeAllAt>>

\* The browser of the instance disconnects: the listener calls closeAll.
disconnected ==
    /\ connected
    /\ ~InMicrotaskGap
    /\ connected' = FALSE
    /\ closeAllFrom(NoPage)
    /\ UNCHANGED <<evicting, nextPage, callVars, capVars, bootVars, poolsVars,
                   simVars>>

\* The page.close() closeAll awaits settles (its error is swallowed).
closeAll ==
    /\ closePc = "closeAll"
    /\ ~InMicrotaskGap
    /\ closeAllFrom(closeAllAt)
    /\ UNCHANGED <<connected, evicting, nextPage, callVars, capVars, bootVars,
                   poolsVars, simVars>>

\* The browser.close() the listener awaits settles (its error is
\* swallowed): with a pid known the process is killed, and the listener
\* is done.
browserClose ==
    /\ closePc = "browser.close"
    /\ ~InMicrotaskGap
    /\ \E pid \in BOOLEAN : closePc' = IF pid THEN "killed" ELSE "done"
    /\ UNCHANGED <<connected, closeAllAt, poolVars, callVars, shotVars,
                   crashVars, capVars, bootVars, poolsVars, simVars>>

\* One instance that can disconnect, with the dispatcher it reports to.
NextDisconnect ==
    \/ Next
    \/ disconnected
    \/ closeAll
    \/ browserClose
    \/ \E k \in 1..Len(launching) : launchDone(k)

\* Every reply of the driver arrives, every timer fires, every continuation
\* runs: a step that can be taken is taken.
SpecDisconnect == Init /\ [][NextDisconnect]_vars /\ WF_vars(NextDisconnect)

\* The listener with one render call on a pool that has room for its page.
InitListener ==
    /\ \E n \in (maxSize - MaxFree)..(maxSize - 1) : PoolInit(n, {1})
    /\ ShotInit(1, {})
    /\ CapInit(FALSE)

NextListener ==
    \/ render(1)
    \/ createNewPage(1)
    \/ acquirePageCreated(1)
    \/ createPageCreated(1)
    \/ newPage(1)
    \/ capture(1)
    \/ removePage(1)
    \/ \E i \in timers : idleTimer(i)
    \/ \E i \in evicting : idleTimerClosed(i)
    \/ disconnected
    \/ closeAll
    \/ browserClose
    \/ \E k \in 1..Len(launching) : launchDone(k)

\* The disconnected listener beside one render call.
SpecListener == InitListener /\ [][NextListener]_vars

----------------------------------------------------------------------------
(* One capture *)

InitCapture ==
    /\ PoolInit(maxSize, {})
    /\ ShotInit(1, {})
    /\ CapInit(TRUE)

NextCapture ==
    \/ renderOptions
    \/ screenshotFullPage
    \/ boundingBox
    \/ screenshotElement
    \/ screenshotSlice
    \/ captureRemovePage

\* One capture, from the options on.
SpecCapture == InitCapture /\ [][NextCapture]_vars

\* Puppeteer.init on a new Puppeteer, with the crashes of the instances it
\* has launched and the screenshot calls made on it meanwhile.
InitBoot ==
    /\ PoolOnly(maxSize, {})
    /\ ShotInit(0, CrashShots)
    /\ CapInit(FALSE)
    /\ BootInit(TRUE)
    /\ PoolsInit(0)
    /\ SimInit

NextBoot ==
    \/ init
    \/ initLaunched
    \/ NextShot
    \/ \E x \in Range(rotation) : browserCrash(x)
    \/ \E k \in 1..Len(launching) : launchDone(k)

SpecBoot == InitBoot /\ [][NextBoot]_vars

\* Two Puppeteers after their init, with one to MaxBrowsers instances each.
InitPools ==
    /\ PoolOnly(maxSize, {})
    /\ \E n \in 1..MaxBrowsers : ShotInit(n, {})
    /\ CapInit(FALSE)
    /\ BootInit(FALSE)
    /\ \E n \in 1..MaxBrowsers : PoolsInit(n)
    /\ SimInit

NextPools ==
    \/ \E owner \in {"this", "other"}, x \in Ids : instanceCrash(owner, x)
    \/ \E k \in 1..Len(launching) : launchDone(k)
    \/ \E k \in 1..Len(other.launching) : otherLaunchDone(k)

SpecPools == InitPools /\ [][NextPools]_vars

\* The simulations of the pages, none called yet.
InitSim ==
    /\ PoolInit(maxSize, {})
    /\ ShotInit(1, {})
    /\ CapInit(FALSE)

NextSim ==
    \/ \E p \in SimPages : simulateWaitUntil(p)
    \/ \E p \in SimPages, u \in SimUrls : request(p, u)
    \/ \E p \in SimPages, u \in SimUrls : delCount(p, u)
    \/ \E p \in SimPages : ceiling(p)

\* Every timeout that is pending fires.
SpecSim ==
    InitSim /\ [][NextSim]_vars /\ \A p \in SimPages : WF_vars(ceiling(p))

\* The boxes and the slice heights tried for the clips alone: slices
\* thinner than the 100 px band, as thick, and thicker; boxes of less than
\* a slice, of whole slices, and with a rest.
ClipBoxHeights == {120, 250, 300, 700, 2100}
ClipSliceHeights == {50, 100, 120, 1000}

\* The loop of a paginated capture is about to start, the box of the
\* element known.
InitClips ==
    /\ PoolInit(maxSize, {})
    /\ ShotInit(1, {})
    /\ WaitInit(FALSE)
    /\ capData \in {d \in [type : {"undefined"}, quality : {NoQuality},
                           fullPage : {FALSE}, multiPage : {"true", "number"},
                           sliceHeight : ClipSliceHeights \cup {0}] :
                       d.multiPage = "number" <=> d.sliceHeight # 0}
    /\ capBox \in [null : {FALSE}, width : BoxWidths, height : ClipBoxHeights]
    /\ capPc = "slices"
    /\ capCalls = <<>>
    /\ capReturn = "none"

NextClips ==
    \/ screenshotSlice
    \/ captureRemovePage

\* The slices of one paginated capture.
SpecClips == InitClips /\ [][NextClips]_vars

InitWaits ==
    /\ PoolInit(maxSize, {})
    /\ ShotInit(1, {})
    /\ CaptureInit(FALSE)
    /\ WaitInit(TRUE)

NextWaits ==
    \/ waitForBody
    \/ waitOptional

\* The waits of one newPage.
SpecWaits == InitWaits /\ [][NextWaits]_vars

----------------------------------------------------------------------------
(* The claims on the rotation *)

RECURSIVE Sum(_, _)
\* The sum of f over the set S.
Sum(f, S) ==
    IF S = {} THEN 0
    ELSE LET x == CHOOSE y \in S : TRUE IN f[x] + Sum(f, S \ {x})

\* The dispatches made so far, by all screenshot calls.
Dispatches == Sum(dispatches, Shots)

\* C11: with N instances in the rotation and no crash, after M dispatches
\* each instance has received floor(M/N) or ceil(M/N) render calls, and all
\* M went to instances of the rotation.
C11_RoundRobin ==
    LET N == Len(rotation)
        M == Dispatches
    IN  /\ \A i \in Range(rotation) :
               renders[i] \in {M \div N, (M + N - 1) \div N}
        /\ Sum(renders, Range(rotation)) = M

\* C11, its case: two instances, three dispatches.
C11_Witness == Len(rotation) = 2 /\ Dispatches = 3

\* C12: a step that takes an instance out of the rotation takes out that one
\* alone and starts exactly one launch, of an instance whose id is in no
\* list, was never removed and never rendered; a launch that completes with
\* a browser adds that one instance at the back.  So the rotation is one
\* shorter from the crash to the completion and as long as before after it.
C12_CrashReplacementKeepsSize ==
    [][/\ \A x \in Range(rotation) \ Range(rotation') :
            /\ Range(rotation') = Range(rotation) \ {x}
            /\ Len(rotation') = Len(rotation) - 1
            /\ Len(launching') = Len(launching) + 1
            /\ SubSeq(launching', 1, Len(launching)) = launching
            /\ LET id == launching'[Len(launching')]
               IN  /\ id \notin Range(rotation) \cup Range(launching) \cup removed
                   /\ id >= index
                   /\ renders[id] = 0
       /\ Len(launching') < Len(launching) /\ rotation' # rotation
            => \E k \in 1..Len(launching) :
                  /\ rotation' = Append(rotation, launching[k])
                  /\ launching[k] \notin Range(rotation)]_vars

\* C12, its case: after one crash of an instance of the rotation and the
\* completion of its replacement, the rotation holds the new id and is as
\* long as it was (index - 1 instances were launched before the crash).
C12_Witness ==
    /\ Cardinality(removed) = 1
    /\ launching = <<>>
    /\ (index - 1) \in Range(rotation)
    /\ Len(rotation) = index - 1

\* C13: a browserCrash notification for an id that is not in the rotation
\* changes nothing: not the rotation, not the launches in flight, not the
\* id counter.
C13_AbsentIdIsNoOp ==
    [][\A x \in Ids :
          (browserCrash(x) /\ x \notin Range(rotation))
             => UNCHANGED <<rotation, launching, index>>]_vars

\* C14: an instance the crash listener removed is never in the rotation
\* again and no dispatch made after the removal renders on it.
C14_RemovedNeverUsed ==
    /\ [](Range(rotation) \cap removed = {})
    /\ [][\A i \in removed :
            /\ renders'[i] = renders[i]
            /\ \A s \in Shots : target'[s] = i => target[s] = i]_vars

\* C14, its case: the one instance (id 0) crashed while the first dispatch of
\* a screenshot call was rendering on it, and the second dispatch of the
\* call went to the replacement.
C14_Witness ==
    /\ removed = {0}
    /\ index = 2
    /\ renders[0] = 1
    /\ \E s \in Shots : dispatches[s] = 2 /\ target[s] = 1

\* C15: the ids in the rotation and in launch are pairwise distinct and below
\* the counter, as are the removed ones; a launch takes the counter's value
\* as its id and moves the counter up by one.
C15_IdsSequentialNeverReused ==
    /\ [](LET all == rotation \o launching
          IN  /\ \A j, k \in 1..Len(all) : j # k => all[j] # all[k]
              /\ \A j \in 1..Len(all) : all[j] \in 0..(index - 1)
              /\ removed \subseteq 0..(index - 1)
              /\ removed \cap Range(all) = {})
    /\ [][/\ index' >= index
          /\ Len(launching') > Len(launching)
                => /\ launching'[Len(launching')] = index
                   /\ index' = index + 1]_vars

\* C15, its case: every id within the bounds was handed out, all launches
\* completed, and each id is either in the rotation or removed.
C15_Witness ==
    /\ index = MaxBrowsers + MaxCrashes
    /\ launching = <<>>
    /\ removed # {}
    /\ Cardinality(Range(rotation) \cup removed) = index

----------------------------------------------------------------------------
(* The claims on eviction and on waiting *)

\* Slot i was stored by createNewPage and its caller has not resumed yet.
JustCreated(i) ==
    \E r \in Calls : pc[r] \in {"acquire_created", "create_created"} /\ created[r] = i

\* A removePage of the page of slot i has cleared the slot's deadline and
\* awaits page.close(); the slot is deleted when it settles.
BeingRemoved(i) == \E r \in Calls : pc[r] = "removePage" /\ page[r] = i

\* C16: an idle slot that was released has its deadline pending or is being
\* closed by it (unless a removePage of its page is under way, which deletes
\* it sooner), a busy slot has no deadline pending; when the deadline of a
\* slot fires (it stops pending in a step of no render call) and the slot is
\* idle, its page is closed and, once closed, the
\* slot is deleted from the pool in a step in which no render call moves (no
\* removePage).
C16_IdleEviction ==
    /\ [](/\ \A i \in IdleIds(pool) : \/ i \in timers \cup evicting
                                     \/ JustCreated(i)
                                     \/ BeingRemoved(i)
          /\ \A i \in BusyIds(pool) : i \notin timers
          /\ \A i \in evicting : ~InMicrotaskGap => ENABLED idleTimerClosed(i))
    /\ [][\A i \in DOMAIN pool :
            /\ (/\ i \in timers /\ i \notin timers' /\ pc' = pc
                /\ pool[i].status = "idle"
                /\ i \in DOMAIN pool' /\ pool'[i].status = "idle")
                  => i \in evicting'
            /\ (i \in evicting /\ i \notin evicting')
                  => i \notin DOMAIN pool' /\ pc' = pc]_vars

\* C16, its case: a render returned and released its page, no render raised
\* (so removePage never ran), and the slot of the page is gone.
C16_Witness ==
    /\ \E r \in Calls : outcome[r] = "returned" /\ page[r] \notin DOMAIN pool
    /\ \A r \in Calls : outcome[r] # "threw"

\* C17: a call waiting in acquirePage is pending, and with an idle slot in
\* the pool its poll can take one; it leaves the wait only by returning the
\* handle of a slot that was idle, with the slot busy, never by raising.
C17_WaiterReturnsReleasedSlot ==
    /\ [](\A r \in Calls :
            pc[r] = "acquire_wait"
               => /\ outcome[r] = "pending"
                  /\ (IdleIds(pool) # {} /\ ~InMicrotaskGap)
                        => ENABLED acquirePagePoll(r))
    /\ [][\A r \in Calls :
            (pc[r] = "acquire_wait" /\ pc'[r] # "acquire_wait")
               => /\ pc'[r] = "newPage"
                  /\ outcome'[r] = "pending"
                  /\ npPage'[r] \in IdleIds(pool)
                  /\ pool'[npPage'[r]].status = "busy"]_vars

\* C17, its case: the pool is at capacity, a call waits in acquirePage, and
\* the page another render released is idle.
C17_Witness ==
    /\ PoolSize(pool) >= maxSize
    /\ \E r, q \in Calls :
          /\ pc[r] = "acquire_wait"
          /\ outcome[q] = "returned"
          /\ page[q] \in IdleIds(pool)

\* Render call r has started and not ended.
InFlight(r) == pc[r] \notin {"new", "unissued", "done"}

\* C18: a render that was in flight on the instance before its browser
\* disconnected, and still is when the disconnected listener runs, ends by
\* raising.
C18_InFlightRendersFail ==
    \A r \in Calls :
        []((InFlight(r) /\ connected)
              => []((InFlight(r) /\ ~connected) => <>Failed(r)))

----------------------------------------------------------------------------
(* The claims on the capture *)

\* A paginated capture has returned its list.
PaginatedDone == capPc = "done" /\ ~capData.fullPage /\ Paginated(capData)

\* The clips of the body.screenshot calls made, as <<y, height>>.
Clips == [k \in 1..Len(capCalls) |-> <<capCalls[k].clip.y, capCalls[k].clip.height>>]

\* Paginated slicing for box height H and slice height h: ceil(H/h) slices;
\* slice 0 starts at 0; every later slice i starts 100 above i*h; every slice
\* ends where the plain slice ends, at (i+1)*h or at H, so a later slice is
\* 100 higher than the plain one; for H = 4500 and h = 2000 the clips are
\* y 0 height 2000, y 1900 height 2100, y 3900 height `last`.
Slicing(last) ==
    PaginatedDone =>
        LET H == boxHeight(capBox)
            h == height(capData, capBox)
            n == Len(capCalls)
        IN  /\ (n - 1) * h < H /\ H <= n * h
            /\ Clips[1] = <<0, Min(h, H)>>
            /\ \A k \in 2..n :
                  /\ Clips[k][1] = (k - 1) * h - 100
                  /\ Clips[k][1] + Clips[k][2] = Min(k * h, H)
                  /\ Clips[k][2] = Min(h, H - (k - 1) * h) + 100
            /\ (H = 4500 /\ h = 2000)
                  => Clips = << <<0, 2000>>, <<1900, 2100>>, <<3900, last>> >>

\* C19 as amended: the slicing rule, and for H = 4500 and h = 2000 the last
\* clip is y 3900, height 600 (the 500 left over and the band of 100).
C19_SlicingLast600 == Slicing(600)

\* C19 as claimed: the slicing rule, and for H = 4500 and h = 2000 the last
\* clip is y 3900, height 700.
C19_SlicingLast700 == Slicing(700)

\* C19, its case: a box 4500 high captured in slices of 2000, three of them.
C19_Witness ==
    /\ PaginatedDone
    /\ boxHeight(capBox) = 4500
    /\ height(capData, capBox) = 2000
    /\ Len(capCalls) = 3

\* C20: for a task of type png with a quality, no screenshot call made to
\* the driver carries a quality, whatever the capture mode.
C20_PngCarriesNoQuality ==
    (capData.type = "png" /\ capData.quality # NoQuality)
        => \A k \in 1..Len(capCalls) : capCalls[k].quality = NoQuality

----------------------------------------------------------------------------
(* The claims on the waits and on the exits of a capture *)

\* The conditions of kind `kind` awaited so far.
Awaited(kind) == {k \in 1..Len(waited) : waited[k].kind = kind}

\* C21: newPage raises from its waits only when the wait for body raised,
\* before any optional wait; when it returns the page it has awaited every
\* condition of the task, whatever became of the ones before, in the order
\* selectors, functions, requests, responses.
C21_OptionalWaitsBestEffort ==
    /\ waitPc = "raised" => waited = <<>>
    /\ waitPc = "returned"
          => /\ \A j \in 1..4 :
                   Cardinality(Awaited(WaitKinds[j])) = waitTask[WaitKinds[j]]
             /\ \A j, k \in 1..Len(waited) :
                   j < k => \E m, n \in 1..4 :
                               /\ m <= n
                               /\ waited[j].kind = WaitKinds[m]
                               /\ waited[k].kind = WaitKinds[n]
    /\ waitPc = "waits" => \A k \in 1..Len(waited) : waited[k].outcome \in WaitOutcomes

\* C21, its case: a task with a condition of every kind, the page returned
\* though one wait was rejected and a later one timed out.
C21_Witness ==
    /\ waitPc = "returned"
    /\ Len(waited) = 4
    /\ \E j, k \in 1..4 :
          j < k /\ waited[j].outcome = "rejected" /\ waited[k].outcome = "timeout"

\* The capture calls that raised.
FailedCalls == {k \in 1..Len(capCalls) : ~capCalls[k].ok}

\* C22: once a slice has failed no further slice is captured, and when the
\* render has ended it has raised the error, returned no list, and the slot
\* of its page is not in the pool.
C22_NoPartialResults ==
    /\ [](\A k \in FailedCalls :
            capCalls[k].on = "body"
               => /\ k = Len(capCalls)
                  /\ capPc \in {"removePage", "raised"}
                  /\ capReturn \in {"none", "error"}
                  /\ capPc = "raised"
                        => capReturn = "error" /\ CapPage \notin DOMAIN pool)
    /\ [][(\E k \in FailedCalls : capCalls[k].on = "body")
             => capCalls' = capCalls]_vars

\* C22, its case: the third slice of a box 4500 high failed after two slices
\* were captured, and the render has ended.
C22_Witness ==
    /\ capPc = "raised"
    /\ Len(capCalls) = 3
    /\ FailedCalls = {3}
    /\ capCalls[3].on = "body"

----------------------------------------------------------------------------
(* The claims on the bookkeeping of one pool *)

\* C23: a busy slot has no idle timeout pending, and an idle slot has one
\* pending or was stored by createNewPage and never acquired.
C23_SlotTimerInvariant ==
    /\ \A i \in BusyIds(pool) : i \notin timers
    /\ \A i \in IdleIds(pool) : i \in timers \/ JustCreated(i)

\* Render call r returns in this step, from a task without request
\* interception.
ReturnsPooled(r) ==
    /\ outcome[r] = "pending"
    /\ outcome'[r] = "returned"
    /\ ~data[r].setRequestInterception

\* C25: when a render of a task without request interception returns, the
\* slot of its page is in the pool, idle, with its idle timeout pending, and
\* the render called releasePage once, on a handle that was found.
C25_ReleasedAfterSuccess ==
    [][\A r \in Calls :
          ReturnsPooled(r)
             => /\ page[r] \in IdleIds(pool')
                /\ page[r] \in timers'
                /\ released'[r] = <<TRUE>>]_vars

\* C26: a releasePage that does not find its handle leaves the pool (no slot
\* added, no status changed) and the pending timeouts as they were.
C26_ReleaseAbsentIsNoOp ==
    [][\A r \in Calls :
          (Len(released'[r]) > Len(released[r])
             /\ ~released'[r][Len(released'[r])])
             => pool' = pool /\ timers' = timers]_vars

\* C26, its case: a render has released a handle that was in no slot.
C26_Witness == \E r \in Calls : released[r] = <<FALSE>>

\* C27: when removePage of a render call ends (the close of the page has
\* settled, passing or not), the slot of the page is not in the pool, no
\* timeout of it is pending, every other slot is as it was, and what the
\* render raises is the error of its capture, not one of the close.
C27_RemoveAlwaysDeletes ==
    [][\A r \in Calls :
          (pc[r] = "removePage" /\ pc'[r] # "removePage")
             => /\ page[r] \notin DOMAIN pool'
                /\ page[r] \notin timers'
                /\ \A i \in DOMAIN pool \ {page[r]} :
                      i \in DOMAIN pool' /\ pool'[i] = pool[i]
                /\ DOMAIN pool' \subseteq DOMAIN pool
                /\ outcome'[r] = "threw"
                /\ lastError' = lastError]_vars

\* C30: the echoes in Render.list are those of the render calls that have
\* started and not ended; with no render executing the list is empty.
C30_EchoWhileInFlight ==
    /\ list = {r \in Calls : InFlight(r)}
    /\ (\A r \in Calls : ~InFlight(r)) => list = {}

\* C30, its case: one render has returned, one has raised after its page was
\* removed, and the list is empty.
C30_Witness ==
    /\ list = {}
    /\ \E r, q \in Calls :
          /\ outcome[r] = "returned"
          /\ outcome[q] = "threw"
          /\ lastError = [echo |-> q, at |-> "screenshot"]

----------------------------------------------------------------------------
(* The claims on the order of the rotation *)

\* Instance a is in front of instance b in rot.
Before(rot, a, b) ==
    \E j, k \in 1..Len(rot) : j < k /\ rot[j] = a /\ rot[k] = b

----------------------------------------------------------------------------
(* The claims on the disconnected listener *)

\* closeAll has returned to the disconnected listener.
ClosedAll == closePc \in {"browser.close", "killed", "done"}

\* C28: in the step in which closeAll returns, whatever the renders holding
\* pages did while it awaited the closes, the pool is left with no slot and
\* no idle timeout pending.
C28_CloseAllLeavesNothing ==
    [][(ClosedAll' /\ ~ClosedAll) => DOMAIN pool' = {} /\ timers' = {}]_vars

\* C29: browserCrash is emitted (the dispatcher's listener runs: index
\* advances) in the very step in which closeAll returns, with the pool
\* cleared, for the id of this instance, and in no other step: once per
\* disconnect; the browser is closed and the process killed only in later
\* steps.
C29_CrashHandlingOrder ==
    /\ [](index = IF ClosedAll THEN 2 ELSE 1)
    /\ [](ClosedAll => ~connected /\ ThisId \in removed)
    /\ [][index' # index
            => /\ ~ClosedAll /\ ~connected'
               /\ closePc' = "browser.close"
               /\ DOMAIN pool' = {}
               /\ index' = index + 1
               /\ removed' = removed \cup {ThisId}
               /\ ThisId \notin Range(rotation')]_vars
    /\ [][closePc' \in {"killed", "done"} => index' = 2 /\ index = 2]_vars

\* C29, its case: the browser disconnected with pages in the pool, closeAll
\* closed them, the notification took the instance out of the rotation and
\* the process was killed.
C29_Witness ==
    /\ closePc = "killed"
    /\ closeAllAt # NoPage
    /\ removed = {ThisId}

----------------------------------------------------------------------------
(* The claims on the clips *)

\* The clips of the slices captured so far.
SliceClips == [k \in 1..Len(capCalls) |-> capCalls[k].clip]

\* C38: every clip of a paginated capture starts at y >= 0 and ends inside
\* the box of the element, and the clips of a capture that returned its list
\* cover the box from 0 to its height without a gap.
C38_ClipsInsideBox ==
    /\ \A k \in 1..Len(SliceClips) :
          capCalls[k].on = "body"
             => /\ SliceClips[k].y >= 0
                /\ SliceClips[k].y + SliceClips[k].height <= boxHeight(capBox)
    /\ (capPc = "done" /\ capReturn = "list" /\ Len(SliceClips) > 0)
          => /\ SliceClips[1].y <= 0
             /\ \A k \in 1..(Len(SliceClips) - 1) :
                   SliceClips[k + 1].y <= SliceClips[k].y + SliceClips[k].height
             /\ SliceClips[Len(SliceClips)].y + SliceClips[Len(SliceClips)].height
                   >= boxHeight(capBox)

----------------------------------------------------------------------------
(* The claims on eviction under a holder and on the progress of renders *)

\* C33: a slot whose idle timeout has fired and whose page is being closed
\* is not busy, acquirePage hands out no such slot, and the callback deletes
\* no busy slot.
C33_EvictionSparesHolders ==
    /\ [](\A i \in evicting : i \in DOMAIN pool => pool[i].status = "idle")
    /\ [][/\ \A r \in Calls : AcquireReturns(r) => npPage'[r] \notin evicting
          /\ \A i \in evicting \ evicting' : i \notin BusyIds(pool)]_vars

\* C34: a call waiting in acquirePage while the pool is below maxSize (slots
\* were deleted since it began to wait) eventually gets a handle.
C34_WaiterProgressAfterRemoval ==
    \A r \in Calls :
        (pc[r] = "acquire_wait" /\ PoolSize(pool) < maxSize)
            ~> (pc[r] # "acquire_wait")

\* C35: every render call that has started eventually ends, by returning or
\* by raising.
C35_EveryRenderCompletes ==
    \A r \in Calls : InFlight(r) ~> (pc[r] = "done")

----------------------------------------------------------------------------
(* The claims on the dispatcher and the instances it owns *)

\* C36: in every step in which task is called the rotation holds an
\* instance, which gets the render.
C36_DispatchFindsInstance ==
    [][\A s \in Shots :
          dispatches'[s] > dispatches[s]
             => rotation # <<>> /\ target'[s] \in Range(rotation)]_vars

\* The instances 0..n-1 in the order of their launches.
FirstIds(n) == [i \in 1..n |-> i - 1]

\* Puppeteer.init returns in this step.
InitCompletes == initPc # "done" /\ initPc' = "done"

\* C31: when init returns, with browserCount given and 1 at least, or not
\* given or 0 (one instance then), and no instance crashed and no task was
\* dispatched before, the rotation holds the instances 0..N-1 in launch
\* order, N launches were made, one after the other, and none is pending.
C31_InitLaunchesInOrder ==
    [][(InitCompletes /\ removed' = {} /\ Dispatches' = 0)
          => LET N == IF config = NoCount \/ config = 0 THEN 1 ELSE config
             IN  /\ rotation' = FirstIds(N)
                 /\ index' = N
                 /\ launching' = <<>>
                 /\ initI' = N]_vars

\* C31 as stated: when init returns the rotation holds the instances 0..N-1
\* in launch order for browserCount = N, and one instance with none given.
C31_InitHoldsExactlyN ==
    [][InitCompletes
          => rotation' = FirstIds(IF config = NoCount THEN 1 ELSE config)]_vars

\* C31, its case: init has returned for browserCount = 2 at least, with no
\* crash and no dispatch before.
C31_Witness ==
    /\ initPc = "done"
    /\ config >= 2
    /\ removed = {}
    /\ Dispatches = 0
    /\ Len(rotation) = config

\* C37: when an instance of one Puppeteer disconnects, that Puppeteer starts
\* one launch and the list, the index and the launches of the other are left
\* as they were.
C37_CrashScopedToOwner ==
    [][lastCrash'.n > lastCrash.n
          => IF lastCrash'.pool = "this"
             THEN /\ Len(launching') = Len(launching) + 1
                  /\ other' = other
             ELSE /\ Len(other'.launching) = Len(other.launching) + 1
                  /\ rotation' = rotation
                  /\ index' = index
                  /\ launching' = launching]_vars

----------------------------------------------------------------------------
(* The claims on simulateWaitUntil *)

\* C32: a call waiting for 'end' has its 10 s timeout pending, so the wait
\* lasts no longer than it; the wait ends in the step in which the map of
\* the call drains; and every wait ends, whatever the requests do.
C32_IdleWaitEnds ==
    /\ [](\A p \in SimPages : simPc[p] = "waiting" => simTimer[p])
    /\ [][\A p \in SimPages :
            (simPc[p] = "waiting" /\ simList'[p] # simList[p]
                /\ Keys(simList'[p]) = {})
               => simPc'[p] = "ended" /\ ~simTimer'[p]]_vars
    /\ \A p \in SimPages : (simPc[p] = "waiting") ~> (simPc[p] = "ended")

\* C32, its case: the wait of a page whose requests never finished was ended
\* by its timeout.
C32_Witness ==
    \E p \in SimPages :
        /\ simPc[p] = "ended"
        /\ lastSignal = [from |-> p, bool |-> FALSE]
        /\ Keys(simList[p]) = SimUrls
        /\ \A q \in SimPages \ {p} : simPc[q] = "new"

\* C39: the wait of a page that has requests in flight ends only in a step
\* in which its own simulation gives the signal (its own timeout fires: its
\* map is not empty).
C39_SimulationsIsolated ==
    [][\A q \in SimPages :
          (simPc[q] = "waiting" /\ simPc'[q] = "ended" /\ Keys(simList'[q]) # {})
             => lastSignal'.from = q]_vars

=============================================================================
